---- MODULE Spec2Model ----
(***************************************************************************)
(* Model of the authentication and authorization core of anpbayu-be:       *)
(* token issuance (middleware.GenerateJWT), the two authentication         *)
(* middlewares found in the sources (jwtware.New as configured in main.go, *)
(* and middleware.AuthRequired), the role check middleware.HasRole, and    *)
(* the route table of routes.SetupAPIRoutes.                               *)
(*                                                                         *)
(* A request is handled by a chain of fiber handlers; each handler is one  *)
(* action, and pc is the position of the request in its chain.             *)
(*                                                                         *)
(* AuthController.Login and Logout act on the credential store and on the  *)
(* session log (table user_logs); RoleController.CreateRole acts on table  *)
(* roles, one call per worker, in two database statements.  The seeding of *)
(* main, and UserController.UpdateUser and DeleteUser, act on table users. *)
(***************************************************************************)
EXTENDS Integers, Sequences, FiniteSets, TLC

VARIABLES
    now,        \* the wall clock, in Unix seconds (time.Now().Unix())
    missingErr, \* Error() text of jwtware's "no token" error in the linked library
    gen,        \* the last call of GenerateJWT: its arguments, clock reads and token
    pc,         \* position of the request in flight: idle, auth, role, handler, done
    req,        \* the request in flight: route and Authorization header
    locals,     \* fiber's c.Locals of the request in flight
    resp,       \* the response being built for the request in flight
    logs,       \* the rows of table user_logs, in insertion order; the id is the index
    sess,       \* the last call of Login, Logout, UpdateUser or DeleteUser: inputs, response
    roleTable,  \* the rows of table roles, in insertion order
    cr,         \* per worker, the call of RoleController.CreateRole it is handling
    users,      \* the rows of table users, joined with the name of their role
    lo,         \* per worker, the call of AuthController.Logout it is handling
    secret,     \* config.AppConfig.JWTSecret
    signingKey  \* the SigningKey.Key of the jwtware.Config built in main

vars == <<now, missingErr, gen, pc, req, locals, resp, logs, sess, roleTable, cr,
          users, lo, secret, signingKey>>

\* the state of the role table and of the workers that handle CreateRole
roleVars == <<roleTable, cr>>

\* the state of the stores and of the handlers that use them
storeVars == <<logs, sess, roleTable, cr, users, lo, secret, signingKey>>

\* the user table, the workers that handle Logout, and the configuration
\* (what AuthController.Login and RoleController.CreateRole do not write)
adminVars == <<users, lo, secret, signingKey>>

----------------------------------------------------------------------------
(* Bounds of the model *)

\* the clock is observed at day*24h + sec for day <= MaxDays, sec <= MaxSecs
MaxDays == 1
MaxSecs == 1
\* the clock advances by at most MaxDrift seconds between two reads of one call
MaxDrift == 1
\* the session log holds at most MaxLogs rows
MaxLogs == 2
\* requests to create a role are handled by MaxWorkers workers at a time
MaxWorkers == 2

----------------------------------------------------------------------------
(* Program constants *)

\* time.Hour * 24, in seconds
TokenTTL == 24 * 3600

\* the value LoadConfig gives config.AppConfig.JWTSecret (default value)
JWTSecret == "supersecretjwtkey"

\* a key that is not the process's signing secret
OtherKey == "attackerkey"

Keys == {JWTSecret, OtherKey}

\* the signing methods a token header can name; the HS* ones are *jwt.SigningMethodHMAC
HMACAlgs == {"HS256", "HS384"}
Algs == HMACAlgs \cup {"RS256", "none"}

\* jwt.SigningMethodHS256, the method GenerateJWT signs with
IssueAlg == "HS256"

Instants == {d * TokenTTL + s : d \in 0..MaxDays, s \in 0..MaxSecs}

----------------------------------------------------------------------------
(* JSON values, as encoding/json produces and decodes them *)

JAbsent == [kind |-> "absent", str |-> "", num |-> 0, elems |-> <<>>]
JNull == [kind |-> "null", str |-> "", num |-> 0, elems |-> <<>>]
JStr(s) == [kind |-> "string", str |-> s, num |-> 0, elems |-> <<>>]
JNum(n) == [kind |-> "number", str |-> "", num |-> n, elems |-> <<>>]
JArr(es) == [kind |-> "array", str |-> "", num |-> 0, elems |-> es]

\* a Go string holding bytes that are not valid UTF-8, and what json.Marshal
\* writes for it (the bytes replaced by U+FFFD)
BadUTF8 == "\\xff"
Replacement == "\\ufffd"

\* Go slices of strings: a nil slice and an empty slice are different values
NilSlice == [isNil |-> TRUE, elems |-> <<>>]
Slice(es) == [isNil |-> FALSE, elems |-> es]

\* json.Marshal of a Go string
MarshalString(s) == JStr(IF s = BadUTF8 THEN Replacement ELSE s)

\* json.Marshal of a []string: null for a nil slice, else an array of strings
MarshalStrings(sl) ==
    IF sl.isNil THEN JNull
    ELSE JArr([i \in 1..Len(sl.elems) |-> MarshalString(sl.elems[i])])

----------------------------------------------------------------------------
(* Tokens.  A token is its header algorithm, the key its signature was made *)
(* with, and its claims as JSON values.  A signature made with key k over   *)
(* these claims verifies under k only.                                      *)

Token(alg, key, userID, email, roles, exp, iat) ==
    [alg |-> alg, key |-> key, user_id |-> userID, email |-> email,
     roles |-> roles, exp |-> exp, iat |-> iat]

\* GenerateJWT(userID, email, roles): the claims map is built with two reads of
\* the clock, tExp for "exp" and then tIat for "iat", and signed HS256 with
\* the configured secret
GenerateJWT(userID, email, roles, tExp, tIat) ==
    Token(IssueAlg, secret,
          MarshalString(userID), MarshalString(email), MarshalStrings(roles),
          JNum(tExp + TokenTTL), JNum(tIat))

\* errors of jwt.Parse / jwt.ParseWithClaims, by their Error() text
NoErr == ""
ErrTokenMalformed == "token is malformed"
ErrTokenUnverifiable == "token is unverifiable"
ErrTokenSignatureInvalid == "token signature is invalid"
ErrTokenExpired == "token has invalid claims: token is expired"
ErrTokenInvalidClaims == "token has invalid claims"

\* mutant: the signing method is not looked at
AuthRequiredKeyfuncOk_Any(tok) == TRUE

\* the Keyfunc of AuthRequired: only *jwt.SigningMethodHMAC is accepted
AuthRequiredKeyfuncOk(tok) == tok.alg \in HMACAlgs

\* the Keyfunc jwtware builds from SigningKey{Key: secret}: JWTAlg is empty, so
\* the header algorithm is not compared and the key is returned for any token
JwtwareKeyfuncOk(tok) == TRUE

\* mutant: the MAC is not compared
MethodVerify_AnyKey(tok, key) == tok.alg \in HMACAlgs

\* token.Method.Verify with a []byte key: an HMAC method compares the MAC, every
\* other method refuses a []byte key
MethodVerify(tok, key) == tok.alg \in HMACAlgs /\ tok.key = key

\* mutant: a token is still accepted at the instant of its expiry
ClaimsErr_Inclusive(tok, t) ==
    CASE tok.exp.kind = "absent" -> NoErr
      [] tok.exp.kind = "number" -> IF t <= tok.exp.num THEN NoErr ELSE ErrTokenExpired
      [] OTHER -> ErrTokenInvalidClaims

\* the claims validator: "exp", when present, must be a number after the clock
ClaimsErr(tok, t) ==
    CASE tok.exp.kind = "absent" -> NoErr
      [] tok.exp.kind = "number" -> IF t < tok.exp.num THEN NoErr ELSE ErrTokenExpired
      [] OTHER -> ErrTokenInvalidClaims

\* mutant: the token is parsed without verifying its signature
ParseToken_Unverified(tok, keyfuncOk, key, t) ==
    IF ~keyfuncOk THEN ErrTokenUnverifiable ELSE ClaimsErr(tok, t)

\* jwt.ParseWithClaims on a well-formed token string at clock t: key lookup,
\* signature, then claims
ParseToken(tok, keyfuncOk, key, t) ==
    IF ~keyfuncOk THEN ErrTokenUnverifiable
    ELSE IF ~MethodVerify(tok, key) THEN ErrTokenSignatureInvalid
    ELSE ClaimsErr(tok, t)

----------------------------------------------------------------------------
(* Request context (c.Locals) and claim extraction *)

NoLocals == [user |-> <<>>, userEmail |-> <<>>]

RECURSIVE StringsOf(_)
\* the loop of GetUserRolesFromJWT: the string elements, in order
StringsOf(es) ==
    IF es = <<>> THEN <<>>
    ELSE (IF Head(es).kind = "string" THEN <<Head(es).str>> ELSE <<>>)
         \o StringsOf(Tail(es))

GetUserIDFromJWT(l) ==
    IF l.user = <<>> THEN [val |-> "", ok |-> FALSE]
    ELSE LET c == l.user[1].user_id
         IN IF c.kind = "string" THEN [val |-> c.str, ok |-> TRUE]
            ELSE [val |-> "", ok |-> FALSE]

\* mutant: the claim is asserted to be a string only; a decoded JSON array is
\* taken for "no roles"
GetUserRolesFromJWT_StringOnly(l) ==
    IF l.user = <<>> THEN [roles |-> NilSlice, ok |-> FALSE]
    ELSE LET c == l.user[1].roles
         IN IF c.kind = "string" THEN [roles |-> Slice(<<c.str>>), ok |-> TRUE]
            ELSE [roles |-> NilSlice, ok |-> FALSE]

\* mutant: a list with an element that is not a string is refused, and so is a
\* single string
GetUserRolesFromJWT_Strict(l) ==
    IF l.user = <<>> THEN [roles |-> NilSlice, ok |-> FALSE]
    ELSE LET c == l.user[1].roles
         IN IF c.kind = "array" /\ \A i \in 1..Len(c.elems) : c.elems[i].kind = "string"
            THEN [roles |-> [isNil |-> (c.elems = <<>>),
                             elems |-> [i \in 1..Len(c.elems) |-> c.elems[i].str]],
                  ok |-> TRUE]
            ELSE [roles |-> NilSlice, ok |-> FALSE]

GetUserRolesFromJWT(l) ==
    IF l.user = <<>> THEN [roles |-> NilSlice, ok |-> FALSE]
    ELSE LET c == l.user[1].roles
         IN CASE c.kind = "array" ->
                   LET ss == StringsOf(c.elems)
                   IN [roles |-> [isNil |-> (ss = <<>>), elems |-> ss], ok |-> TRUE]
              [] c.kind = "string" -> [roles |-> Slice(<<c.str>>), ok |-> TRUE]
              [] OTHER -> [roles |-> NilSlice, ok |-> FALSE]

\* mutant: every required role must be held (AND instead of OR)
HasRoleMatch_All(requiredRoles, userRoles) ==
    \A i \in 1..Len(requiredRoles) :
        \E j \in 1..Len(userRoles) : userRoles[j] = requiredRoles[i]

\* the nested loops of HasRole
HasRoleMatch(requiredRoles, userRoles) ==
    \E i \in 1..Len(requiredRoles) :
        \E j \in 1..Len(userRoles) : userRoles[j] = requiredRoles[i]

----------------------------------------------------------------------------
(* Routes.  chain names the authentication middleware in front of the route; *)
(* guarded routes pass through HasRole(required...) after it.                *)

Route(path, chain, guarded, required) ==
    [path |-> path, chain |-> chain, guarded |-> guarded, required |-> required]

NoRoute == Route("", "", FALSE, <<>>)

\* mutant: the /api/users group is registered without its HasRole("admin")
APIRoutes_UsersOpen ==
    { Route("/api/auth/logout", "jwtware", FALSE, <<>>),
      Route("/api/lstroles", "jwtware", TRUE, <<"admin">>),
      Route("/api/dashboard", "jwtware", FALSE, <<>>),
      Route("/api/profile", "jwtware", FALSE, <<>>),
      Route("/api/users", "jwtware", FALSE, <<>>),
      Route("/api/roles", "jwtware", TRUE, <<"admin">>),
      Route("/api/premium/special-content", "jwtware", TRUE, <<"admin", "premium_user">>),
      Route("/api/my-data", "jwtware", TRUE, <<"user", "admin">>) }

\* routes.SetupAPIRoutes, registered after app.Use(jwtware.New(...)) in main
APIRoutes ==
    { Route("/api/auth/logout", "jwtware", FALSE, <<>>),
      Route("/api/lstroles", "jwtware", TRUE, <<"admin">>),
      Route("/api/dashboard", "jwtware", FALSE, <<>>),
      Route("/api/profile", "jwtware", FALSE, <<>>),
      Route("/api/users", "jwtware", TRUE, <<"admin">>),
      Route("/api/roles", "jwtware", TRUE, <<"admin">>),
      Route("/api/premium/special-content", "jwtware", TRUE, <<"admin", "premium_user">>),
      Route("/api/my-data", "jwtware", TRUE, <<"user", "admin">>) }

\* the group protected by middleware.AuthRequired()
AuthRequiredRoutes ==
    { Route("/api/dashboard", "AuthRequired", FALSE, <<>>),
      Route("/api/profile", "AuthRequired", FALSE, <<>>) }

Routes == APIRoutes \cup AuthRequiredRoutes

\* the routes whose handlers manage users and roles
AdminPaths == {"/api/users", "/api/roles", "/api/lstroles"}

----------------------------------------------------------------------------
(* Requests *)

\* the Authorization header: absent, another scheme ("Basic ..."), "Bearer "
\* with nothing after it, "Bearer x" with x not a JWT, or "Bearer <token>"
Header(kind, tok) == [kind |-> kind, tok |-> tok]
HAbsent == Header("absent", <<>>)
HBasic == Header("basic", <<>>)
HBearerEmpty == Header("bearer-empty", <<>>)
HBearerGarbage == Header("bearer-garbage", <<>>)
HBearer(t) == Header("bearer-jwt", <<t>>)

UserEmail == "user@example.com"

\* roles claims a presented token may carry
CraftedRoles ==
    { JArr(<<JStr("admin")>>), JArr(<<JStr("user")>>),
      JArr(<<JStr("admin"), JStr("user")>>), JArr(<<JNum(7), JStr("admin")>>),
      JStr("admin"), JNull, JNum(7), JAbsent, JArr(<<>>) }

CraftedExp == {JAbsent, JNum(TokenTTL)}

\* tokens a client can build and present, with either key and any algorithm
CraftedTokens ==
    { Token(a, k, JStr("u1"), JStr(UserEmail), r, e, JNum(0)) :
        a \in Algs, k \in Keys, r \in CraftedRoles, e \in CraftedExp }

\* arguments GenerateJWT is called with
UserIDs == {"u1", BadUTF8}
RoleSlices ==
    { NilSlice, Slice(<<>>), Slice(<<"admin">>), Slice(<<"user">>),
      Slice(<<"admin", "user">>), Slice(<<BadUTF8>>) }

NoGen == [called |-> FALSE, userID |-> "", roles |-> NilSlice,
          tExp |-> 0, tIat |-> 0, token |-> <<>>]

NoReq == [route |-> NoRoute, header |-> HAbsent]

NoResp == [status |-> 0, message |-> <<>>, cause |-> NoErr, at |-> -1,
           ran |-> FALSE, user_id |-> "", roles |-> NilSlice]

\* c.Status(status).JSON(message)
Reply(status, message, cause, at) ==
    [status |-> status, message |-> message, cause |-> cause, at |-> at,
     ran |-> FALSE, user_id |-> "", roles |-> NilSlice]

\* the headers a client can send with a token it built, or with none
CraftedHeaders == {HAbsent, HBasic, HBearerEmpty, HBearerGarbage}
                    \cup {HBearer(t) : t \in CraftedTokens}

----------------------------------------------------------------------------
(* The credential store and the session log *)

\* bcrypt: a hash is made from a password and matches that password only
Bcrypt(pw) == <<"bcrypt", pw>>

\* mutant: the comparison reports no error for any password
CompareHashAndPassword_Any(hash, pw) == TRUE

CompareHashAndPassword(hash, pw) == hash = Bcrypt(pw)

\* config.AppConfig.AuthPassword (default value)
AuthPassword == "password"

\* the rows of table users joined with roles (r.name is the role's name) when
\* the server starts to listen: the admin seeded at startup and a user created
\* through the API
Credentials ==
    { [id |-> "u1", username |-> "AdminUser", email |-> UserEmail,
       password_hash |-> Bcrypt(AuthPassword), role_id |-> "r-admin", name |-> "admin"],
      [id |-> "u2", username |-> "Other", email |-> "other@example.com",
       password_hash |-> Bcrypt("pw2"), role_id |-> "r-user", name |-> "user"] }

\* the models.User that GetUserByEmail fills from a row: Scan stores the user's
\* columns and the role's columns go to user.Role; RoleName is not assigned and
\* keeps the zero value
UserOf(row) ==
    [ID |-> row.id, Username |-> row.username, Email |-> row.email,
     Password |-> row.password_hash, RoleID |-> row.role_id,
     RoleName |-> "", Role |-> <<[ID |-> row.role_id, Name |-> row.name]>>]

Emails == {UserEmail, "other@example.com", "nobody@example.com"}
Passwords == {AuthPassword, "pw2", "wrong"}

\* mutant: sql.ErrNoRows is returned to the caller as any other error
GetUserByEmail_NoRowsIsError(email, dbFails) ==
    IF dbFails THEN [user |-> <<>>, err |-> TRUE]
    ELSE LET m == {u \in users : u.email = email}
         IN IF m = {} THEN [user |-> <<>>, err |-> TRUE]
            ELSE [user |-> <<UserOf(CHOOSE u \in m : TRUE)>>, err |-> FALSE]

\* mutant: a failed query is reported as no row matching
GetUserByEmail_ErrAsAbsent(email, dbFails) ==
    IF dbFails THEN [user |-> <<>>, err |-> FALSE]
    ELSE LET m == {u \in users : u.email = email}
         IN [user |-> IF m = {} THEN <<>> ELSE <<UserOf(CHOOSE u \in m : TRUE)>>,
             err |-> FALSE]

\* UserService.GetUserByEmail: (nil, nil) when no row matches, an error when the
\* query fails
GetUserByEmail(email, dbFails) ==
    IF dbFails THEN [user |-> <<>>, err |-> TRUE]
    ELSE LET m == {u \in users : u.email = email}
         IN [user |-> IF m = {} THEN <<>> ELSE <<UserOf(CHOOSE u \in m : TRUE)>>,
             err |-> FALSE]

\* a row of user_logs; LogoutAt is <<>> while logout_at is NULL
UserLog(userID, loginAt, logoutAt) ==
    [UserID |-> userID, LoginAt |-> loginAt, LogoutAt |-> logoutAt]

\* what is left at the id of a row that was deleted with its user (ON DELETE
\* CASCADE): ids are not given again
RemovedLog == UserLog("", -1, <<>>)

\* table user_logs has a row with this id
HasRow(lg, id) == id \in 1..Len(lg) /\ lg[id] # RemovedLog

\* mutant: the insert returns the id of the row before the new one
CreateUserLoginLog_StaleId(lg, userID, t, fails) ==
    IF fails THEN [logs |-> lg, id |-> 0, err |-> TRUE]
    ELSE [logs |-> Append(lg, UserLog(userID, t, <<>>)), id |-> Len(lg), err |-> FALSE]

\* UserService.CreateUserLoginLog: inserts a row with login_at = now and
\* logout_at NULL and returns the id the serial column gave it; (0, err) and no
\* row when the insert fails
CreateUserLoginLog(lg, userID, t, fails) ==
    IF fails THEN [logs |-> lg, id |-> 0, err |-> TRUE]
    ELSE [logs |-> Append(lg, UserLog(userID, t, <<>>)), id |-> Len(lg) + 1, err |-> FALSE]

\* mutant: the row is updated whatever its logout_at holds
UpdateUserLogoutLog_Overwrite(lg, id, t, fails) ==
    IF fails THEN [logs |-> lg, err |-> TRUE]
    ELSE IF ~HasRow(lg, id) THEN [logs |-> lg, err |-> TRUE]
    ELSE [logs |-> [lg EXCEPT ![id].LogoutAt = <<t>>], err |-> FALSE]

\* mutant: the update closes every open row of the user the row belongs to
UpdateUserLogoutLog_AllOfUser(lg, id, t, fails) ==
    IF fails THEN [logs |-> lg, err |-> TRUE]
    ELSE IF ~HasRow(lg, id) THEN [logs |-> lg, err |-> TRUE]
    ELSE [logs |-> [i \in 1..Len(lg) |->
                      IF lg[i].UserID = lg[id].UserID /\ lg[i].LogoutAt = <<>>
                      THEN [lg[i] EXCEPT !.LogoutAt = <<t>>] ELSE lg[i]],
          err |-> FALSE]

\* mutant: the update reports an error for a row that is logged out already
UpdateUserLogoutLog_ClosedIsError(lg, id, t, fails) ==
    IF fails THEN [logs |-> lg, err |-> TRUE]
    ELSE IF ~HasRow(lg, id) THEN [logs |-> lg, err |-> TRUE]
    ELSE IF lg[id].LogoutAt # <<>> THEN [logs |-> lg, err |-> TRUE]
    ELSE [logs |-> [lg EXCEPT ![id].LogoutAt = <<t>>], err |-> FALSE]

\* UserService.UpdateUserLogoutLog: sets logout_at = now on the row with this
\* id if it exists and its logout_at is NULL; an error when no row has the id
\* or the update fails; a row already logged out is left as it is
UpdateUserLogoutLog(lg, id, t, fails) ==
    IF fails THEN [logs |-> lg, err |-> TRUE]
    ELSE IF ~HasRow(lg, id) THEN [logs |-> lg, err |-> TRUE]
    ELSE IF lg[id].LogoutAt # <<>> THEN [logs |-> lg, err |-> FALSE]
    ELSE [logs |-> [lg EXCEPT ![id].LogoutAt = <<t>>], err |-> FALSE]

----------------------------------------------------------------------------
(* The role table and RoleController.CreateRole *)

\* a row of table roles
Role(id, name) == [ID |-> id, Name |-> name]

\* the rows SeedRoles leaves in the table at startup
SeedRoles == <<Role(1, "admin"), Role(2, "user"), Role(3, "premium_user")>>

\* the names a request to create a role may carry
RoleNames == {"admin", "editor"}

Workers == 1..MaxWorkers

\* the bodies of POST /api/roles: one BodyParser refuses, or {name, description}
CreateRoleBodies ==
    {[kind |-> "unparsable", name |-> ""]}
      \cup {[kind |-> "json", name |-> n] : n \in RoleNames}

\* a worker's call of CreateRole: where it is, its body, whether a statement
\* of its own failed in the database, and its response
CreateRoleCall(at, body, dbFailed, status, message) ==
    [pc |-> at, body |-> body, dbFailed |-> dbFailed, status |-> status,
     message |-> message]

NoCreateRole == CreateRoleCall("idle", [kind |-> "unparsable", name |-> ""], FALSE, 0, "")

\* the names in the rows of the table
NamesIn(table) == {table[i].Name : i \in 1..Len(table)}

\* RoleService.GetRoleByName: (nil, nil) when no row has the name
GetRoleByName(table, name, dbFails) ==
    IF dbFails THEN [found |-> FALSE, err |-> TRUE]
    ELSE [found |-> name \in NamesIn(table), err |-> FALSE]

\* RoleService.CreateRole: the INSERT, refused by the UNIQUE constraint on name
\* when a row has the name already
InsertRole(table, name, dbFails) ==
    IF dbFails \/ name \in NamesIn(table) THEN [table |-> table, err |-> TRUE]
    ELSE [table |-> Append(table, Role(Len(table) + 1, name)), err |-> FALSE]

----------------------------------------------------------------------------
(* AuthController *)

\* the JSON body a handler of AuthController answers with; trace lists the
\* stages the handler went through
SessReply(status, statusField, message, trace) ==
    [status |-> status, status_field |-> statusField, message |-> message,
     token |-> <<>>, user_id |-> "", username |-> "", email |-> "", role_id |-> "",
     roles |-> NilSlice, has_log_id |-> FALSE, last_login_log_id |-> 0,
     trace |-> trace]

NoSess == [op |-> "none", in |-> <<>>, out |-> SessReply(0, "", "", <<>>)]

\* a worker's call of Logout: where it is, its body, the clock of its update of
\* the session log (-1 before it), whether the update reported an error, and
\* its response
LogoutCall(at, body, stamp, fails, updErr, out) ==
    [pc |-> at, body |-> body, stamp |-> stamp, fails |-> fails, updErr |-> updErr,
     out |-> out]

NoLogoutCall ==
    LogoutCall("idle", [kind |-> "unparsable", id |-> 0], -1, FALSE, FALSE,
               SessReply(0, "", "", <<>>))

\* the bodies of POST /login: one BodyParser refuses, or {email, password}
LoginBodies ==
    {[kind |-> "unparsable", email |-> "", password |-> ""]}
      \cup {[kind |-> "json", email |-> e, password |-> p] : e \in Emails, p \in Passwords}

----------------------------------------------------------------------------
(* The state machine *)

\* the two Error() texts released versions of the jwtware package give the
\* error returned when no token can be extracted
MissingErrTexts == {"Missing or malformed JWT", "missing or malformed JWT"}

Init ==
    /\ now = 0
    /\ missingErr \in MissingErrTexts
    /\ gen = NoGen
    /\ pc = "idle"
    /\ req = NoReq
    /\ locals = NoLocals
    /\ resp = NoResp
    /\ logs = <<>>
    /\ sess = NoSess
    /\ roleTable = SeedRoles
    /\ cr = [w \in Workers |-> NoCreateRole]
    /\ users = Credentials
    /\ lo = [w \in Workers |-> NoLogoutCall]
    /\ secret = JWTSecret
    /\ signingKey = secret

\* time passes
Tick ==
    /\ \E t \in Instants : t > now /\ now' = t
    /\ UNCHANGED <<missingErr, gen, pc, req, locals, resp>>
    /\ UNCHANGED storeVars

\* time passes, within the seconds of the first day
TickSecond ==
    /\ \E t \in 0..MaxSecs : t > now /\ now' = t
    /\ UNCHANGED <<missingErr, gen, pc, req, locals, resp>>
    /\ UNCHANGED storeVars

\* time passes, to the same second of a later day
TickDay ==
    /\ \E d \in 1..MaxDays : now + d * TokenTTL \in Instants /\ now' = now + d * TokenTTL
    /\ UNCHANGED <<missingErr, gen, pc, req, locals, resp>>
    /\ UNCHANGED storeVars

\* a caller obtains a token from GenerateJWT; the clock may advance between
\* the two time.Now() reads
IssueToken(userID, roles, tIat) ==
    /\ pc = "idle"
    /\ tIat >= now /\ tIat <= now + MaxDrift
    /\ gen' = [called |-> TRUE, userID |-> userID, roles |-> roles,
               tExp |-> now, tIat |-> tIat,
               token |-> <<GenerateJWT(userID, UserEmail, roles, now, tIat)>>]
    /\ now' = tIat
    /\ UNCHANGED <<missingErr, pc, req, locals, resp>>
    /\ UNCHANGED storeVars

\* a request for a route arrives
Receive(route, header) ==
    /\ pc = "idle"
    /\ pc' = "auth"
    /\ req' = [route |-> route, header |-> header]
    /\ locals' = NoLocals
    /\ resp' = NoResp
    /\ UNCHANGED <<now, missingErr, gen>>
    /\ UNCHANGED storeVars

\* ErrorHandler of the jwtware.Config in main
JwtErrorHandler(errText, cause, at) ==
    IF errText = "Missing or malformed JWT"
    THEN Reply(400, <<"Missing or malformed JWT">>, cause, at)
    ELSE Reply(401, <<"Invalid or expired JWT">>, cause, at)

\* mutant: a token that authenticated a successful logout is refused afterwards
JwtwareErr_RevokedByLogout(header, t) ==
    CASE header.kind \in {"absent", "basic", "bearer-empty"} -> missingErr
      [] header.kind = "bearer-garbage" -> ErrTokenMalformed
      [] sess.op = "logout" /\ sess.out.status = 200 /\ sess.in[1].header = header ->
           ErrTokenInvalidClaims
      [] OTHER -> ParseToken(header.tok[1], JwtwareKeyfuncOk(header.tok[1]), signingKey, t)

\* the error jwtware hands to ErrorHandler for a header, "" when the token is
\* accepted: no bearer token, an unparsable one, or the error of jwt.Parse
JwtwareErr(header, t) ==
    CASE header.kind \in {"absent", "basic", "bearer-empty"} -> missingErr
      [] header.kind = "bearer-garbage" -> ErrTokenMalformed
      [] OTHER -> ParseToken(header.tok[1], JwtwareKeyfuncOk(header.tok[1]), signingKey, t)

\* after the authentication middleware calls c.Next()
NextStage(route) == IF route.guarded THEN "role" ELSE "handler"

\* jwtware.New(...) of main: the middleware in front of every /api route
JwtMiddleware ==
    /\ pc = "auth"
    /\ req.route.chain = "jwtware"
    /\ LET err == JwtwareErr(req.header, now)
       IN IF err = NoErr
          THEN /\ locals' = [locals EXCEPT !.user = req.header.tok]
               /\ resp' = [resp EXCEPT !.at = now]
               /\ pc' = NextStage(req.route)
          ELSE /\ resp' = JwtErrorHandler(err, err, IF err = missingErr THEN -1 ELSE now)
               /\ locals' = locals
               /\ pc' = "done"
    /\ UNCHANGED <<now, missingErr, gen, req>>
    /\ UNCHANGED storeVars

\* the response of AuthRequired for a header at clock t, status 0 when it
\* calls c.Next(); at is the clock jwt.ParseWithClaims ran at, -1 if it did not
AuthRequiredReply(header, t) ==
    CASE header.kind = "absent" ->
           Reply(401, <<"Unauthorized: Missing token">>, NoErr, -1)
      [] header.kind = "basic" ->
           Reply(401, <<"Unauthorized: Invalid token format">>, NoErr, -1)
      [] header.kind \in {"bearer-empty", "bearer-garbage"} ->
           Reply(401, <<"Unauthorized: Invalid token", ErrTokenMalformed>>,
                 ErrTokenMalformed, t)
      [] OTHER ->
           LET tok == header.tok[1]
               err == ParseToken(tok, AuthRequiredKeyfuncOk(tok), secret, t)
           IN IF err # NoErr
              THEN Reply(401, <<"Unauthorized: Invalid token", err>>, err, t)
              ELSE IF tok.exp.kind = "number" /\ tok.exp.num < t
              THEN Reply(401, <<"Unauthorized: Token expired">>, ErrTokenExpired, t)
              ELSE Reply(0, <<>>, NoErr, t)

\* middleware.AuthRequired()
AuthRequired ==
    /\ pc = "auth"
    /\ req.route.chain = "AuthRequired"
    /\ LET r == AuthRequiredReply(req.header, now)
       IN IF r.status = 0
          THEN /\ locals' = [locals EXCEPT !.userEmail = <<req.header.tok[1].email>>]
               /\ resp' = r
               /\ pc' = NextStage(req.route)
          ELSE /\ resp' = r
               /\ locals' = locals
               /\ pc' = "done"
    /\ UNCHANGED <<now, missingErr, gen, req>>
    /\ UNCHANGED storeVars

\* the body of HasRole's answer when GetUserRolesFromJWT reports failure
RolesNotFound ==
    <<"Forbidden: User roles not found in token or token invalid. (Ensure JWT middleware runs first)">>

\* mutant: a request whose roles cannot be read is let through
HasRoleReply_FailOpen(requiredRoles, l, r) ==
    LET ur == GetUserRolesFromJWT(l)
    IN IF ~ur.ok
       THEN r
       ELSE IF HasRoleMatch(requiredRoles, ur.roles.elems)
       THEN r
       ELSE [r EXCEPT !.status = 403,
                      !.message = <<"Forbidden: Insufficient role permissions">>]

\* mutant: the roles are those the user table holds for the caller now
HasRoleReply_FromStore(requiredRoles, l, r) ==
    LET held == {u.name : u \in {v \in users : v.id = GetUserIDFromJWT(l).val}}
    IN IF \E i \in 1..Len(requiredRoles) : requiredRoles[i] \in held
       THEN r
       ELSE [r EXCEPT !.status = 403,
                      !.message = <<"Forbidden: Insufficient role permissions">>]

\* the response of HasRole(requiredRoles...), status 0 when it calls c.Next()
HasRoleReply(requiredRoles, l, r) ==
    LET ur == GetUserRolesFromJWT(l)
    IN IF ~ur.ok
       THEN [r EXCEPT !.status = 403,
                      !.message = RolesNotFound]
       ELSE IF HasRoleMatch(requiredRoles, ur.roles.elems)
       THEN r
       ELSE [r EXCEPT !.status = 403,
                      !.message = <<"Forbidden: Insufficient role permissions">>]

\* middleware.HasRole(requiredRoles...)
HasRole ==
    /\ pc = "role"
    /\ resp' = HasRoleReply(req.route.required, locals, resp)
    /\ pc' = IF resp'.status = 0 THEN "handler" ELSE "done"
    /\ UNCHANGED <<now, missingErr, gen, req, locals>>
    /\ UNCHANGED storeVars

\* the body a route handler answers with: /api/profile and /api/my-data of
\* SetupAPIRoutes read the caller's id and roles from the token
HandlerReply(route, l, r) ==
    LET id == GetUserIDFromJWT(l).val
        rs == GetUserRolesFromJWT(l).roles
    IN CASE route.chain = "jwtware" /\ route.path = "/api/profile" ->
              [r EXCEPT !.status = 200, !.ran = TRUE, !.user_id = id, !.roles = rs]
         [] route.chain = "jwtware" /\ route.path = "/api/my-data" ->
              [r EXCEPT !.status = 200, !.ran = TRUE, !.user_id = id]
         [] OTHER -> [r EXCEPT !.status = 200, !.ran = TRUE]

\* the handler of the route runs
Handler ==
    /\ pc = "handler"
    /\ resp' = HandlerReply(req.route, locals, resp)
    /\ pc' = "done"
    /\ UNCHANGED <<now, missingErr, gen, req, locals>>
    /\ UNCHANGED storeVars

\* the response is sent
Finish ==
    /\ pc = "done"
    /\ pc' = "idle"
    /\ req' = NoReq
    /\ locals' = NoLocals
    /\ resp' = NoResp
    /\ UNCHANGED <<now, missingErr, gen>>
    /\ UNCHANGED storeVars

\* mutant: a failed insert into the session log fails the login
LoginSuccess_LogErrFails(user, token, created) ==
    IF created.err
    THEN SessReply(500, "error", "Failed to create login log",
                   <<"lookup", "verify", "issue", "log">>)
    ELSE [SessReply(200, "success", "Login successful",
                    <<"lookup", "verify", "issue", "log">>)
            EXCEPT !.token = <<token>>, !.user_id = user.ID, !.username = user.Username,
                   !.email = user.Email, !.role_id = user.RoleID,
                   !.roles = Slice(<<user.RoleName>>), !.has_log_id = TRUE,
                   !.last_login_log_id = created.id]

\* the end of Login: the error of CreateUserLoginLog is logged and dropped, and
\* the 200 response carries the id it returned
LoginSuccess(user, token, created) ==
    [SessReply(200, "success", "Login successful",
               <<"lookup", "verify", "issue", "log">>)
       EXCEPT !.token = <<token>>, !.user_id = user.ID, !.username = user.Username,
              !.email = user.Email, !.role_id = user.RoleID,
              !.roles = Slice(<<user.RoleName>>), !.has_log_id = TRUE,
              !.last_login_log_id = created.id]

\* AuthController.Login on a request body, with the rows lg in user_logs; tExp
\* and tIat are the clock reads of GenerateJWT, and the row is stamped after
\* them.  The call of GenerateJWT passes the user's id and the one-element
\* slice of the role name.
LoginResult(body, dbFails, logFails, tExp, tIat, lg) ==
    IF body.kind = "unparsable"
    THEN [logs |-> lg, out |-> SessReply(400, "error", "Invalid request body", <<>>)]
    ELSE LET found == GetUserByEmail(body.email, dbFails)
         IN IF found.err
            THEN [logs |-> lg,
                  out |-> SessReply(500, "error", "Internal server error", <<"lookup">>)]
            ELSE IF found.user = <<>>
            THEN [logs |-> lg,
                  out |-> SessReply(401, "error", "Invalid credentials", <<"lookup">>)]
            ELSE LET user == found.user[1]
                 IN IF ~CompareHashAndPassword(user.Password, body.password)
                    THEN [logs |-> lg,
                          out |-> SessReply(401, "error", "Invalid credentials",
                                            <<"lookup", "verify">>)]
                    ELSE LET token == GenerateJWT(user.ID, user.Email,
                                                  Slice(<<user.RoleName>>), tExp, tIat)
                             created == CreateUserLoginLog(lg, user.ID, tIat, logFails)
                         IN [logs |-> created.logs,
                             out |-> LoginSuccess(user, token, created)]

\* POST /login
Login(body, dbFails, logFails, tIat) ==
    /\ Len(logs) < MaxLogs
    /\ tIat >= now /\ tIat <= now + MaxDrift
    /\ LET r == LoginResult(body, dbFails, logFails, now, tIat, logs)
       IN /\ logs' = r.logs
          /\ sess' = [op |-> "login",
                      in |-> <<[body |-> body, dbFails |-> dbFails, logFails |-> logFails,
                                at |-> tIat]>>,
                      out |-> r.out]
    /\ now' = tIat
    /\ UNCHANGED <<missingErr, gen, pc, req, locals, resp>>
    /\ UNCHANGED roleVars
    /\ UNCHANGED adminVars

\* the bodies of POST /api/auth/logout: one BodyParser refuses, one without
\* last_login_log_id, or one with an integer for it
LogoutBodies ==
    {[kind |-> "unparsable", id |-> 0], [kind |-> "no-id", id |-> 0]}
      \cup {[kind |-> "id", id |-> n] : n \in -1..(MaxLogs + 1)}

\* LogoutRequest after BodyParser: a field the body lacks keeps its zero value
LastLoginLogID(body) == IF body.kind = "id" THEN body.id ELSE 0

\* mutant: the log is updated before the id is looked at
LogoutResult_UpdateFirst(body, fails, t, lg) ==
    IF body.kind = "unparsable"
    THEN [logs |-> lg, out |-> SessReply(400, "error", "Invalid request body", <<>>)]
    ELSE LET upd == UpdateUserLogoutLog(lg, IF LastLoginLogID(body) = 0 THEN Len(lg)
                                            ELSE LastLoginLogID(body), t, fails)
         IN IF LastLoginLogID(body) = 0
            THEN [logs |-> upd.logs,
                  out |-> SessReply(400, "error",
                                    "last_login_log_id is required for logout logging", <<"update">>)]
            ELSE IF upd.err
            THEN [logs |-> upd.logs,
                  out |-> SessReply(200, "success",
                                    "Logout successful, but log update failed.", <<"update">>)]
            ELSE [logs |-> upd.logs,
                  out |-> SessReply(200, "success",
                                    "Logout successful and log updated.", <<"update">>)]

\* mutant: an id of 0 is passed to the update like any other id
LogoutResult_ZeroAccepted(body, fails, t, lg) ==
    IF body.kind = "unparsable"
    THEN [logs |-> lg, out |-> SessReply(400, "error", "Invalid request body", <<>>)]
    ELSE LET upd == UpdateUserLogoutLog(lg, LastLoginLogID(body), t, fails)
         IN IF upd.err
            THEN [logs |-> upd.logs,
                  out |-> SessReply(200, "success",
                                    "Logout successful, but log update failed.", <<"update">>)]
            ELSE [logs |-> upd.logs,
                  out |-> SessReply(200, "success",
                                    "Logout successful and log updated.", <<"update">>)]

\* AuthController.Logout on a request body at clock t, with the rows lg
LogoutResult(body, fails, t, lg) ==
    IF body.kind = "unparsable"
    THEN [logs |-> lg, out |-> SessReply(400, "error", "Invalid request body", <<>>)]
    ELSE IF LastLoginLogID(body) = 0
    THEN [logs |-> lg,
          out |-> SessReply(400, "error",
                            "last_login_log_id is required for logout logging", <<>>)]
    ELSE LET upd == UpdateUserLogoutLog(lg, LastLoginLogID(body), t, fails)
         IN IF upd.err
            THEN [logs |-> upd.logs,
                  out |-> SessReply(200, "success",
                                    "Logout successful, but log update failed.", <<"update">>)]
            ELSE [logs |-> upd.logs,
                  out |-> SessReply(200, "success",
                                    "Logout successful and log updated.", <<"update">>)]

\* POST /api/auth/logout, for a request the authentication middleware passed on
Logout(body, fails) ==
    /\ LET r == LogoutResult(body, fails, now, logs)
       IN /\ logs' = r.logs
          /\ sess' = [op |-> "logout",
                      in |-> <<[body |-> body, fails |-> fails, at |-> now]>>,
                      out |-> r.out]
    /\ UNCHANGED <<now, missingErr, gen, pc, req, locals, resp>>
    /\ UNCHANGED roleVars
    /\ UNCHANGED adminVars

\* what the other variables of a step of a worker in Logout keep
LogoutFrame ==
    /\ UNCHANGED <<now, missingErr, gen, pc, req, locals, resp, sess>>
    /\ UNCHANGED roleVars
    /\ UNCHANGED <<users, secret, signingKey>>

\* POST /api/auth/logout reaches AuthController.Logout on worker w: the body
\* is parsed and the id looked at, up to the call of UpdateUserLogoutLog
LogoutReceive(w, body) ==
    /\ lo[w].pc = "idle"
    /\ lo' = [lo EXCEPT ![w] =
                IF body.kind = "unparsable"
                THEN LogoutCall("done", body, -1, FALSE, FALSE,
                                SessReply(400, "error", "Invalid request body", <<>>))
                ELSE IF LastLoginLogID(body) = 0
                THEN LogoutCall("done", body, -1, FALSE, FALSE,
                                SessReply(400, "error",
                                          "last_login_log_id is required for logout logging",
                                          <<>>))
                ELSE LogoutCall("update", body, -1, FALSE, FALSE, SessReply(0, "", "", <<>>))]
    /\ logs' = logs
    /\ LogoutFrame

\* Logout on worker w from the update of the session log, one statement in
\* the database, to the response
LogoutUpdate(w, fails) ==
    /\ lo[w].pc = "update"
    /\ LET upd == UpdateUserLogoutLog(logs, LastLoginLogID(lo[w].body), now, fails)
       IN /\ logs' = upd.logs
          /\ lo' = [lo EXCEPT ![w] =
                      LogoutCall("done", lo[w].body, now, fails, upd.err,
                                 IF upd.err
                                 THEN SessReply(200, "success",
                                                "Logout successful, but log update failed.",
                                                <<"update">>)
                                 ELSE SessReply(200, "success",
                                                "Logout successful and log updated.",
                                                <<"update">>))]
    /\ LogoutFrame

\* the response of worker w is sent
LogoutFinish(w) ==
    /\ lo[w].pc = "done"
    /\ lo' = [lo EXCEPT ![w] = NoLogoutCall]
    /\ logs' = logs
    /\ LogoutFrame

\* a step of a worker handling a logout whose body carries the id of a row
LogoutWorkerStep ==
    \E w \in Workers :
        \/ \E b \in LogoutBodies : b.kind = "id" /\ b.id \in 1..MaxLogs /\ LogoutReceive(w, b)
        \/ \E fails \in BOOLEAN : LogoutUpdate(w, fails)
        \/ LogoutFinish(w)

\* a client logs in
LoginAny ==
    \E b \in LoginBodies, dbFails \in BOOLEAN, logFails \in BOOLEAN, t \in Instants :
        Login(b, dbFails, logFails, t)

\* a client logs out
LogoutAny == \E b \in LogoutBodies, fails \in BOOLEAN : Logout(b, fails)

\* POST /api/roles reaches RoleController.CreateRole on worker w
CreateRoleReceive(w, body) ==
    /\ cr[w].pc = "idle"
    /\ cr' = [cr EXCEPT ![w] = CreateRoleCall("check", body, FALSE, 0, "")]
    /\ UNCHANGED <<now, missingErr, gen, pc, req, locals, resp, logs, sess, roleTable>>
    /\ UNCHANGED adminVars

\* CreateRole up to the answer of GetRoleByName: the body is parsed and the
\* table is asked for a role with the name
CreateRoleCheck(w, dbFails) ==
    /\ cr[w].pc = "check"
    /\ LET c == cr[w]
           existing == GetRoleByName(roleTable, c.body.name, dbFails)
       IN cr' = [cr EXCEPT ![w] =
                   IF c.body.kind = "unparsable"
                   THEN CreateRoleCall("done", c.body, FALSE, 400, "Invalid request body")
                   ELSE IF existing.err
                   THEN CreateRoleCall("done", c.body, TRUE, 500, "Internal server error")
                   ELSE IF existing.found
                   THEN CreateRoleCall("done", c.body, FALSE, 409,
                                       "Role with this name already exists")
                   ELSE CreateRoleCall("insert", c.body, FALSE, 0, "")]
    /\ UNCHANGED <<now, missingErr, gen, pc, req, locals, resp, logs, sess, roleTable>>
    /\ UNCHANGED adminVars

\* CreateRole from the call of RoleService.CreateRole to the response
CreateRoleInsert(w, dbFails) ==
    /\ cr[w].pc = "insert"
    /\ LET c == cr[w]
           ins == InsertRole(roleTable, c.body.name, dbFails)
       IN /\ roleTable' = ins.table
          /\ cr' = [cr EXCEPT ![w] =
                      IF ins.err
                      THEN CreateRoleCall("done", c.body, dbFails, 500, "Failed to create role")
                      ELSE CreateRoleCall("done", c.body, FALSE, 201,
                                          "Role created successfully")]
    /\ UNCHANGED <<now, missingErr, gen, pc, req, locals, resp, logs, sess>>
    /\ UNCHANGED adminVars

\* the response of worker w is sent
CreateRoleFinish(w) ==
    /\ cr[w].pc = "done"
    /\ cr' = [cr EXCEPT ![w] = NoCreateRole]
    /\ UNCHANGED <<now, missingErr, gen, pc, req, locals, resp, logs, sess, roleTable>>
    /\ UNCHANGED adminVars

\* a step of a worker handling POST /api/roles
CreateRoleStep ==
    \E w \in Workers :
        \/ \E b \in CreateRoleBodies : CreateRoleReceive(w, b)
        \/ \E dbFails \in BOOLEAN : CreateRoleCheck(w, dbFails)
        \/ \E dbFails \in BOOLEAN : CreateRoleInsert(w, dbFails)
        \/ CreateRoleFinish(w)

\* mutant: Logout refuses an id whose row belongs to another user than the
\* caller
LogoutRoute_OwnerOnly(body, fails) ==
    /\ pc = "handler"
    /\ req.route = Route("/api/auth/logout", "jwtware", FALSE, <<>>)
    /\ LET foreign == /\ LastLoginLogID(body) \in 1..Len(logs)
                      /\ logs[LastLoginLogID(body)].UserID # GetUserIDFromJWT(locals).val
           r == IF foreign
                THEN [logs |-> logs, out |-> SessReply(403, "error", "Forbidden", <<>>)]
                ELSE LogoutResult(body, fails, now, logs)
       IN /\ logs' = r.logs
          /\ sess' = [op |-> "logout",
                      in |-> <<[body |-> body, fails |-> fails, at |-> now,
                                header |-> req.header, locals |-> locals]>>,
                      out |-> r.out]
          /\ resp' = [resp EXCEPT !.status = r.out.status, !.ran = TRUE,
                                  !.message = <<r.out.message>>]
    /\ pc' = "done"
    /\ UNCHANGED <<now, missingErr, gen, req, locals>>
    /\ UNCHANGED roleVars
    /\ UNCHANGED adminVars

\* the handler of POST /api/auth/logout behind the middleware of main: the
\* request in flight, which jwtware passed on, reaches AuthController.Logout;
\* sess keeps the header and the context the request came with
LogoutRoute(body, fails) ==
    /\ pc = "handler"
    /\ req.route = Route("/api/auth/logout", "jwtware", FALSE, <<>>)
    /\ LET r == LogoutResult(body, fails, now, logs)
       IN /\ logs' = r.logs
          /\ sess' = [op |-> "logout",
                      in |-> <<[body |-> body, fails |-> fails, at |-> now,
                                header |-> req.header, locals |-> locals]>>,
                      out |-> r.out]
          /\ resp' = [resp EXCEPT !.status = r.out.status, !.ran = TRUE,
                                  !.message = <<r.out.message>>]
    /\ pc' = "done"
    /\ UNCHANGED <<now, missingErr, gen, req, locals>>
    /\ UNCHANGED roleVars
    /\ UNCHANGED adminVars

\* a client logs out through the route, with an id in its body: the id of a
\* row, or the 0 a login answers with when its insert failed
LogoutRouteAny ==
    \E b \in LogoutBodies, fails \in BOOLEAN :
        b.kind = "id" /\ b.id \in 0..MaxLogs /\ LogoutRoute(b, fails)

\* the handler of a route other than logout runs
HandlerOther == req.route.path # "/api/auth/logout" /\ Handler

\* a user logs in with the email and password of its credential
LoginOwn ==
    \E b \in LoginBodies, logFails \in BOOLEAN :
        /\ b.kind = "json"
        /\ \E u \in users : u.email = b.email /\ u.password_hash = Bcrypt(b.password)
        /\ Login(b, FALSE, logFails, now)

\* a user logs in while the session log is empty
LoginFirst == logs = <<>> /\ LoginOwn

\* the routes the clients of the session flow call
FlowRoutes ==
    { Route("/api/auth/logout", "jwtware", FALSE, <<>>),
      Route("/api/profile", "jwtware", FALSE, <<>>) }

\* a client sends a request with the token of the last login response
ReceiveLoginToken ==
    \E r \in FlowRoutes :
        /\ sess.op = "login" /\ sess.out.token # <<>>
        /\ Receive(r, HBearer(sess.out.token[1]))

\* a client sends a request with the header of its logout request
ReceiveAfterLogout ==
    \E r \in FlowRoutes :
        /\ sess.op = "logout" /\ sess.in[1].header.kind = "bearer-jwt"
        /\ Receive(r, sess.in[1].header)

----------------------------------------------------------------------------
(* Seeding at startup, and UserController.UpdateUser and DeleteUser *)

\* the ids of the seeded roles, as users.role_id holds them
AdminRoleID == "r-admin"
UserRoleID == "r-user"

\* roles.name of the role with this id, "" when there is none
RoleNameOfID(rid) ==
    CASE rid = AdminRoleID -> "admin"
      [] rid = UserRoleID -> "user"
      [] OTHER -> ""

\* models.SeedRoles on a role table: each of the three roles is looked up by
\* name and inserted when it is missing
RunSeedRoles(table) ==
    LET seed(t, n) == IF n \in NamesIn(t) THEN t ELSE Append(t, Role(Len(t) + 1, n))
    IN seed(seed(seed(table, "admin"), "user"), "premium_user")

\* uuid.New() for the example user, an id no user had before
NewUserID == "u3"

\* models.SeedExampleUser on the user table: nothing without the role "admin"
\* or when a user has the configured email already, else the admin is inserted
\* with the hash of the configured password
SeedExampleUser(us, table) ==
    IF "admin" \notin NamesIn(table) THEN us
    ELSE IF \E u \in us : u.email = UserEmail THEN us
    ELSE us \cup {[id |-> NewUserID, username |-> "AdminUser", email |-> UserEmail,
                    password_hash |-> Bcrypt(AuthPassword), role_id |-> AdminRoleID,
                    name |-> RoleNameOfID(AdminRoleID)]}

\* the process is started again on the same database and environment: main
\* loads the configuration, seeds roles and the example user, and builds the
\* middleware; requests that were in flight are gone
Restart ==
    /\ roleTable' = RunSeedRoles(roleTable)
    /\ users' = SeedExampleUser(users, roleTable')
    /\ secret' = JWTSecret
    /\ signingKey' = secret'
    /\ pc' = "idle" /\ req' = NoReq /\ locals' = NoLocals /\ resp' = NoResp
    /\ cr' = [w \in Workers |-> NoCreateRole]
    /\ lo' = [w \in Workers |-> NoLogoutCall]
    /\ UNCHANGED <<now, missingErr, gen, logs, sess>>

\* the JSON body a handler of UserController answers with
UserReply(status, success, message) ==
    [status |-> status, success |-> success, message |-> message]

\* the ids in the URL of PUT and DELETE /api/users/:id
UserParams == {"u1", "nobody"}

\* the bodies of PUT /api/users/:id: one BodyParser refuses, one without a
\* role id, or {username, email, role_id} with no password
UpdateUserBodies ==
    {[kind |-> "unparsable", Username |-> "", Email |-> "", RoleID |-> ""],
     [kind |-> "json", Username |-> "AdminUser", Email |-> UserEmail, RoleID |-> ""]}
      \cup {[kind |-> "json", Username |-> "AdminUser", Email |-> UserEmail, RoleID |-> r] :
               r \in {AdminRoleID, UserRoleID}}

\* UserController.UpdateUser with UserService.UpdateUser, on the user table:
\* the row with the id gets the username, email and role of the body; the
\* UPDATE is refused when another row has the email or no role has the id
UpdateUserResult(us, id, body, fails) ==
    IF id = ""
    THEN [users |-> us, out |-> UserReply(400, FALSE, "User ID is required")]
    ELSE IF body.kind = "unparsable"
    THEN [users |-> us, out |-> UserReply(400, FALSE, "Invalid request body")]
    ELSE IF body.Username = "" \/ body.Email = "" \/ body.RoleID = ""
    THEN [users |-> us,
          out |-> UserReply(400, FALSE,
                            "Username, email, and role ID are required for update")]
    ELSE IF fails
    THEN [users |-> us, out |-> UserReply(500, FALSE, "Failed to update user")]
    ELSE IF ~\E u \in us : u.id = id
    THEN [users |-> us, out |-> UserReply(404, FALSE, "User not found")]
    ELSE IF RoleNameOfID(body.RoleID) = "" \/ \E u \in us : u.id # id /\ u.email = body.Email
    THEN [users |-> us, out |-> UserReply(500, FALSE, "Failed to update user")]
    ELSE [users |-> {IF u.id = id
                     THEN [u EXCEPT !.username = body.Username, !.email = body.Email,
                                    !.role_id = body.RoleID,
                                    !.name = RoleNameOfID(body.RoleID)]
                     ELSE u : u \in us},
          out |-> UserReply(200, TRUE, "User updated successfully")]

\* PUT /api/users/:id, for a request the middlewares passed on
UpdateUser(id, body, fails) ==
    /\ LET r == UpdateUserResult(users, id, body, fails)
       IN /\ users' = r.users
          /\ sess' = [op |-> "update",
                      in |-> <<[id |-> id, body |-> body, fails |-> fails, at |-> now]>>,
                      out |-> r.out]
    /\ UNCHANGED <<now, missingErr, gen, pc, req, locals, resp, logs>>
    /\ UNCHANGED roleVars
    /\ UNCHANGED <<lo, secret, signingKey>>

\* the routes a logged-in client calls, behind jwtware and behind AuthRequired
SessionRoutes == FlowRoutes \cup {Route("/api/profile", "AuthRequired", FALSE, <<>>)}

\* a client sends a request with the token of the last login response, to a
\* route behind either middleware
ReceiveSessionToken ==
    \E r \in SessionRoutes :
        /\ sess.op = "login" /\ sess.out.token # <<>>
        /\ Receive(r, HBearer(sess.out.token[1]))

\* UserController.DeleteUser with UserService.DeleteUser, on the user table and
\* the session log: the row with the id is deleted, and with it the rows of
\* user_logs that refer to it
DeleteUserResult(us, lg, id, fails) ==
    IF fails
    THEN [users |-> us, logs |-> lg, out |-> UserReply(500, FALSE, "Failed to delete user")]
    ELSE IF ~\E u \in us : u.id = id
    THEN [users |-> us, logs |-> lg, out |-> UserReply(404, FALSE, "User not found")]
    ELSE [users |-> {u \in us : u.id # id},
          logs |-> [i \in 1..Len(lg) |-> IF lg[i].UserID = id THEN RemovedLog ELSE lg[i]],
          out |-> UserReply(200, TRUE, "User deleted successfully")]

\* mutant: deleting a user replaces the configured secret
DeleteUser_RotatesSecret(id, fails) ==
    /\ LET r == DeleteUserResult(users, logs, id, fails)
       IN /\ users' = r.users
          /\ logs' = r.logs
          /\ sess' = [op |-> "delete",
                      in |-> <<[id |-> id, fails |-> fails, at |-> now]>>,
                      out |-> r.out]
    /\ secret' = IF sess'.out.status = 200 THEN OtherKey ELSE secret
    /\ UNCHANGED <<now, missingErr, gen, pc, req, locals, resp>>
    /\ UNCHANGED roleVars
    /\ UNCHANGED <<lo, signingKey>>

\* DELETE /api/users/:id, for a request the middlewares passed on
DeleteUser(id, fails) ==
    /\ LET r == DeleteUserResult(users, logs, id, fails)
       IN /\ users' = r.users
          /\ logs' = r.logs
          /\ sess' = [op |-> "delete",
                      in |-> <<[id |-> id, fails |-> fails, at |-> now]>>,
                      out |-> r.out]
    /\ UNCHANGED <<now, missingErr, gen, pc, req, locals, resp>>
    /\ UNCHANGED roleVars
    /\ UNCHANGED <<lo, secret, signingKey>>

\* an administrator updates a user
UpdateUserAny ==
    \E id \in UserParams, b \in UpdateUserBodies, fails \in BOOLEAN : UpdateUser(id, b, fails)

\* an administrator deletes a user
DeleteUserAny == \E id \in UserParams, fails \in BOOLEAN : DeleteUser(id, fails)

\* GenerateJWT is called for the seeded admin while the user table holds the
\* user, as Login calls it, with a one-role list: the name of the user's role,
\* or the empty RoleName
IssueToUser ==
    \E u \in users :
        /\ u.id = "u1"
        /\ \E rs \in {Slice(<<u.name>>), Slice(<<"">>)} : IssueToken(u.id, rs, now)

\* the routes a user calls while the administrator changes the user table
UserRoutes == {r \in APIRoutes : r.path \in {"/api/users", "/api/my-data", "/api/profile"}}

\* the user sends a request with the token GenerateJWT gave
ReceiveFromUser == \E r \in UserRoutes : gen.called /\ Receive(r, HBearer(gen.token[1]))

\* a client sends a request with a header of its own making
ReceiveCrafted == \E r \in Routes, h \in CraftedHeaders : Receive(r, h)

\* a client sends a request with the token GenerateJWT gave it
ReceiveIssued == \E r \in Routes : gen.called /\ Receive(r, HBearer(gen.token[1]))

\* GenerateJWT is called
Issue == \E u \in UserIDs, rs \in RoleSlices, t \in Instants : IssueToken(u, rs, t)

Next ==
    \/ Tick
    \/ Issue
    \/ ReceiveCrafted
    \/ ReceiveIssued
    \/ JwtMiddleware
    \/ AuthRequired
    \/ HasRole
    \/ HandlerOther
    \/ LogoutRouteAny
    \/ Finish
    \/ LoginAny
    \/ LogoutAny
    \/ LogoutWorkerStep
    \/ CreateRoleStep
    \/ UpdateUserAny
    \/ DeleteUserAny
    \/ Restart

Spec == Init /\ [][Next]_vars

\* the middleware chains under requests of any making, no token being issued
NextAuth ==
    \/ Tick
    \/ ReceiveCrafted
    \/ JwtMiddleware
    \/ AuthRequired
    \/ HasRole
    \/ Handler
    \/ Finish

SpecAuth == Init /\ [][NextAuth]_vars

\* tokens are issued and presented by the client they were issued to
NextIssue ==
    \/ Tick
    \/ Issue
    \/ ReceiveIssued
    \/ JwtMiddleware
    \/ AuthRequired
    \/ HasRole
    \/ Handler
    \/ Finish

SpecIssue == Init /\ [][NextIssue]_vars

\* logins and logouts against the credential store and the session log, seconds
\* apart
NextSession ==
    \/ TickSecond
    \/ LoginAny
    \/ LogoutAny

SpecSession == Init /\ [][NextSession]_vars

\* clients that log in, call /api routes with the token they got, log out
\* through the route and go on using the token, over days
NextFlow ==
    \/ TickDay
    \/ LoginOwn
    \/ ReceiveLoginToken
    \/ ReceiveAfterLogout
    \/ JwtMiddleware
    \/ HandlerOther
    \/ LogoutRouteAny
    \/ Finish

SpecFlow == Init /\ [][NextFlow]_vars

\* one session, seconds and days long: a login, requests with its token, a
\* logout through the route, and requests with the token after it
NextReuse ==
    \/ Tick
    \/ LoginFirst
    \/ ReceiveLoginToken
    \/ ReceiveAfterLogout
    \/ JwtMiddleware
    \/ HandlerOther
    \/ LogoutRouteAny
    \/ Finish

SpecReuse == Init /\ [][NextReuse]_vars

\* a user logs in, and workers handle logouts side by side, seconds apart
NextLogout ==
    \/ TickSecond
    \/ LoginFirst
    \/ LogoutWorkerStep

SpecLogout == Init /\ [][NextLogout]_vars

\* the process is restarted, users log in, and the administrator deletes users
NextSeed ==
    \/ TickSecond
    \/ Restart
    \/ LoginAny
    \/ DeleteUserAny

SpecSeed == Init /\ [][NextSeed]_vars

\* tokens are issued and presented while the administrator updates and deletes
\* users
NextAdmin ==
    \/ TickSecond
    \/ IssueToUser
    \/ ReceiveFromUser
    \/ JwtMiddleware
    \/ HasRole
    \/ Handler
    \/ Finish
    \/ UpdateUserAny
    \/ DeleteUserAny

SpecAdmin == Init /\ [][NextAdmin]_vars

\* after startup: a login, requests with its token to routes behind either
\* middleware, logouts through the route, and updates and deletions of users
NextSecret ==
    \/ TickSecond
    \/ LoginFirst
    \/ ReceiveSessionToken
    \/ ReceiveAfterLogout
    \/ JwtMiddleware
    \/ AuthRequired
    \/ HandlerOther
    \/ LogoutRouteAny
    \/ Finish
    \/ UpdateUserAny
    \/ DeleteUserAny

SpecSecret == Init /\ [][NextSecret]_vars

\* workers creating roles
NextRoles == CreateRoleStep

SpecRoles == Init /\ [][NextRoles]_vars

----------------------------------------------------------------------------
(* Vocabulary of the properties, stated on the request and not through the  *)
(* operators of the middlewares                                             *)

\* the request in flight carries "Bearer <token>"
HasToken == req.header.kind = "bearer-jwt"
Tok == req.header.tok[1]

\* the authentication middleware called c.Next() for the request in flight
Authenticated == pc \in {"role", "handler"} \/ (pc = "done" /\ locals # NoLocals)

\* the authentication middleware answered the request itself
AuthFailed == pc = "done" /\ locals = NoLocals

\* the token is a MAC made with the process's secret
SignedWithSecret(tok) == tok.alg \in HMACAlgs /\ tok.key = JWTSecret

\* the token has no expiry or one that is after instant t
Unexpired(tok, t) ==
    tok.exp.kind = "absent" \/ (tok.exp.kind = "number" /\ t < tok.exp.num)

\* the role names a roles claim carries
RoleSet(c) ==
    CASE c.kind = "array" ->
           {c.elems[i].str : i \in {j \in 1..Len(c.elems) : c.elems[j].kind = "string"}}
      [] c.kind = "string" -> {c.str}
      [] OTHER -> {}

\* the role names of a route's policy
Required(route) == {route.required[i] : i \in 1..Len(route.required)}

\* what the client sees of a response
External(r) == <<r.status, r.message>>

----------------------------------------------------------------------------
(* C1 - C10 *)

\* C1: a request is passed on by the authentication middleware, and the handler of
\* an /api route runs, only if the request carries a bearer token that is signed
\* with the process's secret and unexpired at the time it was validated; a request
\* with no token, a malformed header or an invalid token never gets that far.
C1_HandlerOnlyForValidToken ==
    (Authenticated \/ resp.ran) =>
        /\ HasToken
        /\ SignedWithSecret(Tok)
        /\ resp.at # -1
        /\ Unexpired(Tok, resp.at)

C1_Witness ==
    /\ pc = "done" /\ resp.ran /\ resp.status = 200
    /\ req.route = Route("/api/auth/logout", "jwtware", FALSE, <<>>)
    /\ SignedWithSecret(Tok)

\* C2: HasRole lets an authenticated request proceed if and only if the role
\* names of its token and the required names have an element in common; if not
\* it answers 403 and the handler does not run.
C2_HasRoleIffIntersects ==
    (req.route.guarded /\ locals.user # <<>> /\ pc \in {"handler", "done"}) =>
        LET common == RoleSet(Tok.roles) \cap Required(req.route)
            proceeded == pc = "handler" \/ resp.ran
        IN /\ proceeded <=> (common # {})
           /\ ~proceeded => (resp.status = 403 /\ ~resp.ran)

C2_Witness ==
    /\ pc = "done" /\ resp.ran
    /\ req.route.required = <<"admin">>
    /\ Tok.roles = JArr(<<JStr("admin"), JStr("user")>>)

C4_AuthFailureStatus ==
    AuthFailed =>
        IF req.header.kind \in {"absent", "basic", "bearer-empty"}
        THEN External(resp) = <<400, <<"Missing or malformed JWT">>>> /\ resp.at = -1
        ELSE External(resp) = <<401, <<"Invalid or expired JWT">>>>

\* the response the chain of a route gives a header it rejects at clock t
ChainReply(chain, header, t) ==
    IF chain = "jwtware"
    THEN JwtErrorHandler(JwtwareErr(header, t), JwtwareErr(header, t), t)
    ELSE AuthRequiredReply(header, t)

\* C5 (as claimed): a response to a failed token validation is the same as the
\* response to any other token that fails validation on the same route, whatever
\* check each of them failed.
C5_FailureResponsesAgree ==
    (AuthFailed /\ resp.at # -1) =>
        \A h \in CraftedHeaders :
            LET r == ChainReply(req.route.chain, h, resp.at)
            IN (h.kind \in {"bearer-garbage", "bearer-jwt"} /\ r.status # 0 /\ r.cause # NoErr)
                  => External(r) = External(resp)

\* C6: a token with an expiry is accepted only at instants before it; a token
\* signed with the secret and presented at or after its expiry is rejected with
\* the expiry error and 401, and is rejected at every later instant too.
C6_ExpiredIsRejected ==
    /\ (Authenticated /\ Tok.exp.kind = "number") => resp.at < Tok.exp.num
    /\ (pc = "done" /\ HasToken /\ SignedWithSecret(Tok)
          /\ Tok.exp.kind = "number" /\ resp.at >= Tok.exp.num) =>
           /\ AuthFailed /\ resp.status = 401 /\ ~resp.ran
           /\ resp.cause = ErrTokenExpired
           /\ \A t \in Instants : t >= resp.at =>
                 ChainReply(req.route.chain, req.header, t).cause = ErrTokenExpired

C6_Witness ==
    /\ AuthFailed /\ HasToken /\ SignedWithSecret(Tok)
    /\ Tok.exp.kind = "number" /\ resp.at = Tok.exp.num
    /\ resp.cause = ErrTokenExpired

\* C7: a token signed with a key other than the process's secret never
\* authenticates a request, whatever its algorithm, roles and expiry.
C7_OtherSecretRejected ==
    (pc # "idle" /\ HasToken /\ Tok.key # JWTSecret) =>
        /\ ~Authenticated /\ ~resp.ran
        /\ pc = "done" => resp.status = 401

C7_Witness ==
    /\ AuthFailed /\ HasToken /\ Tok.key = OtherKey /\ Tok.alg = IssueAlg
    /\ Tok.exp.kind = "absent" /\ Tok.roles = JArr(<<JStr("admin")>>)
    /\ resp.cause = ErrTokenSignatureInvalid

\* the issued token is presented with the clock where GenerateJWT left it
PresentedAtOnce == gen.called /\ pc = "done" /\ HasToken /\ Tok = gen.token[1]
                     /\ resp.at = gen.tIat

\* a handler behind jwtware, which puts the token in c.Locals("user"), ran
RanBehindJwtware == resp.ran /\ req.route.chain = "jwtware"

\* the id and roles read back from the request context equal the ones issued
ReadBackEqual ==
    /\ GetUserIDFromJWT(locals) = [val |-> gen.userID, ok |-> TRUE]
    /\ GetUserRolesFromJWT(locals).ok
    /\ GetUserRolesFromJWT(locals).roles.elems = gen.roles.elems

\* C8 (as claimed): a token from GenerateJWT, for any id and any role list,
\* passes validation at once and gives back the id and roles it was issued with.
C8_RoundTripAnyInput ==
    PresentedAtOnce => (~AuthFailed /\ (RanBehindJwtware => ReadBackEqual))

\* the strings of a slice are valid UTF-8
ValidUTF8(sl) == \A i \in 1..Len(sl.elems) : sl.elems[i] # BadUTF8

\* C8 (amended): a token from GenerateJWT passes validation at once; it gives back
\* the id and roles it was issued with when the id and the role names are valid
\* UTF-8 and the role slice is not nil.
C8_RoundTrip ==
    PresentedAtOnce =>
        /\ ~AuthFailed
        /\ (RanBehindJwtware /\ gen.userID # BadUTF8 /\ ~gen.roles.isNil
               /\ ValidUTF8(gen.roles)) => ReadBackEqual

C8_Witness ==
    /\ PresentedAtOnce /\ resp.ran
    /\ req.route = Route("/api/profile", "jwtware", FALSE, <<>>)
    /\ gen.roles = Slice(<<"admin", "user">>)
    /\ resp.user_id = gen.userID /\ resp.roles = gen.roles

\* C9 (as claimed): in every issued token exp - iat is exactly 24 hours, and so
\* exp > iat.
C9_ExpIsIatPlusTTL ==
    gen.called =>
        /\ gen.token[1].exp.num - gen.token[1].iat.num = TokenTTL
        /\ gen.token[1].exp.num > gen.token[1].iat.num

\* C10 (as claimed): a token whose header names an algorithm other than the one
\* tokens are issued with never authenticates a request.
C10_OtherAlgRejected ==
    (pc # "idle" /\ HasToken /\ Tok.alg # IssueAlg) => (~Authenticated /\ ~resp.ran)

\* C10 (amended): a token whose header names an algorithm that is not an HMAC
\* one ("none", an asymmetric scheme) never authenticates a request, whatever
\* key it is signed with; AuthRequired rejects it before the signature check.
C10_NonHMACRejected ==
    (pc # "idle" /\ HasToken /\ Tok.alg \notin HMACAlgs) =>
        /\ ~Authenticated /\ ~resp.ran
        /\ pc = "done" =>
              /\ resp.status = 401
              /\ req.route.chain = "AuthRequired" => resp.cause = ErrTokenUnverifiable

C10_Witness ==
    /\ AuthFailed /\ HasToken /\ Tok.alg = "none" /\ Tok.key = JWTSecret
    /\ Unexpired(Tok, resp.at) /\ resp.status = 401

\* the roles claim is a JSON array all of whose elements are strings
Homogeneous(c) ==
    c.kind = "array" /\ \A i \in 1..Len(c.elems) : c.elems[i].kind = "string"

\* HasRole has answered, or passed on, the request in flight
RoleStageRan == req.route.guarded /\ locals.user # <<>> /\ pc \in {"handler", "done"}

\* C11 (as claimed): role extraction succeeds when the roles claim is a list of
\* strings only, and reports failure for every other roles claim: HasRole
\* answers "roles not found" exactly for the claims that are not such a list,
\* and a handler that reads the roles of such a claim gets none.
C11_ExtractionAllOrNothing ==
    /\ RoleStageRan =>
          ((pc = "done" /\ resp.message = RolesNotFound) <=> ~Homogeneous(Tok.roles))
    /\ (pc = "done" /\ resp.ran /\ req.route.chain = "jwtware"
           /\ req.route.path = "/api/profile" /\ ~Homogeneous(Tok.roles)) =>
          resp.roles = NilSlice

\* the role names a roles claim gives, in order: the string elements of a list,
\* or the one string
RoleNamesOf(c) ==
    CASE c.kind = "array" ->
           LET ss == SelectSeq(c.elems, LAMBDA e : e.kind = "string")
           IN [i \in 1..Len(ss) |-> ss[i].str]
      [] c.kind = "string" -> <<c.str>>
      [] OTHER -> <<>>

\* C11 (amended): role extraction succeeds when the roles claim is a list, giving
\* its string elements in order and dropping the others, or a single string,
\* giving that one name; for every other roles claim (a number, null, absent)
\* it reports failure, and HasRole answers 403 "roles not found".
C11_ExtractionLenient ==
    /\ RoleStageRan =>
          ((pc = "done" /\ resp.message = RolesNotFound)
              <=> Tok.roles.kind \notin {"array", "string"})
    /\ (pc = "done" /\ resp.ran /\ req.route.chain = "jwtware"
           /\ req.route.path = "/api/profile") =>
          resp.roles.elems = RoleNamesOf(Tok.roles)

C11_Witness ==
    /\ RoleStageRan /\ pc = "done" /\ resp.ran /\ resp.status = 200
    /\ req.route.path = "/api/users"
    /\ Tok.roles = JArr(<<JNum(7), JStr("admin")>>)

\* C12: when HasRole runs on a request whose context gives it no role (the
\* token is not in the context, or its roles claim yields no role name), the
\* request is answered 403 and the handler does not run.
C12_NoRolesForbidden ==
    /\ (RoleStageRan /\ RoleSet(Tok.roles) = {}) =>
          (pc = "done" /\ resp.status = 403 /\ ~resp.ran)
    /\ \A r \in Routes : r.guarded =>
          LET a == HasRoleReply(r.required, NoLocals, NoResp)
          IN a.status = 403 /\ a.message = RolesNotFound /\ ~a.ran

C12_Witness ==
    /\ RoleStageRan /\ pc = "done" /\ Tok.roles = JNull
    /\ req.route.path = "/api/my-data"
    /\ resp.status = 403 /\ resp.message = RolesNotFound /\ ~resp.ran

----------------------------------------------------------------------------
(* C13 - C19: login, logout and the session log *)

\* the inputs of the last call of Login or Logout
In == sess.in[1]

\* the last call was a Login whose body parsed and whose lookup did not fail
LoginTried == sess.op = "login" /\ In.body.kind = "json" /\ ~In.dbFails

\* a stored credential has this email
KnownEmail(e) == \E u \in Credentials : u.email = e

\* a stored credential has this email and the hash of this password
Matches(e, p) == \E u \in Credentials : u.email = e /\ u.password_hash = Bcrypt(p)

\* the stored credential with this email
CredentialOf(e) == CHOOSE u \in Credentials : u.email = e

\* what the client sees of a response of AuthController
Body(out) == [out EXCEPT !.trace = <<>>]

InvalidCredentials == SessReply(401, "error", "Invalid credentials", <<>>)

\* C13: a login with an email that has no stored credential and a login with a
\* stored email and a wrong password get one and the same response, 401
\* "Invalid credentials", for any password.
C13_NoAccountOracle ==
    (LoginTried /\ ~Matches(In.body.email, In.body.password)) =>
        Body(sess.out) = InvalidCredentials

C13_Witness ==
    /\ LoginTried /\ ~KnownEmail(In.body.email) /\ In.body.password = AuthPassword
    /\ Body(sess.out) = InvalidCredentials

\* C14: a login with a stored email and a wrong password is answered 401 with no
\* token, and a login answered 401 leaves the session log as it was; a row is
\* added to the session log only by a login that went through lookup, password
\* verification and token issuance, in that order, and was answered with a token.
C14_WrongPasswordNoEffect ==
    [][ /\ (sess'.op = "login" /\ sess'.in[1].body.kind = "json" /\ ~sess'.in[1].dbFails
              /\ KnownEmail(sess'.in[1].body.email)
              /\ ~Matches(sess'.in[1].body.email, sess'.in[1].body.password)) =>
             (sess'.out.status = 401 /\ sess'.out.token = <<>> /\ ~sess'.out.has_log_id)
        /\ (sess'.op = "login" /\ sess'.out.status = 401) => logs' = logs
        /\ (Len(logs') > Len(logs)) =>
             /\ sess'.op = "login" /\ sess'.out.status = 200 /\ sess'.out.token # <<>>
             /\ sess'.out.trace = <<"lookup", "verify", "issue", "log">>
             /\ Matches(sess'.in[1].body.email, sess'.in[1].body.password)
             /\ Len(logs') = Len(logs) + 1
      ]_vars

C14_Witness ==
    /\ LoginTried /\ KnownEmail(In.body.email) /\ In.body.password = "wrong"
    /\ sess.out.status = 401 /\ sess.out.token = <<>>
    /\ Len(logs) = 1

\* C15 (as claimed): a login whose email and password match a stored credential
\* is answered 200 with a token, the roles both in the response and in the token
\* being the one-element list of the credential's role name, the user's id, and
\* last_login_log_id the id of the row this login added to the session log.
C15_LoginResponse ==
    (LoginTried /\ Matches(In.body.email, In.body.password)) =>
        LET u == CredentialOf(In.body.email)
        IN /\ sess.out.status = 200 /\ sess.out.token # <<>>
           /\ sess.out.roles = Slice(<<u.name>>)
           /\ sess.out.token[1].roles = JArr(<<JStr(u.name)>>)
           /\ sess.out.user_id = u.id
           /\ sess.out.last_login_log_id = Len(logs)
           /\ Len(logs) >= 1
           /\ logs[Len(logs)] = UserLog(u.id, In.at, <<>>)

\* C16: a login with matching credentials is answered 200 with the token also
\* when the insert into the session log failed.
C16_LogFailureSwallowed ==
    (LoginTried /\ Matches(In.body.email, In.body.password) /\ In.logFails) =>
        /\ sess.out.status = 200 /\ sess.out.status_field = "success"
        /\ sess.out.token # <<>>
        /\ SignedWithSecret(sess.out.token[1])

C16_Witness ==
    /\ LoginTried /\ In.body.email = UserEmail /\ In.body.password = AuthPassword
    /\ In.logFails /\ logs = <<>>
    /\ sess.out.status = 200 /\ sess.out.token # <<>>

\* C17 (as claimed): a logout whose body carries a last_login_log_id is answered
\* 200 "success", whatever the id and the state of the session log.
C17_LogoutAlways200 ==
    (sess.op = "logout" /\ In.body.kind = "id") =>
        (sess.out.status = 200 /\ sess.out.status_field = "success")

\* C18: a logout whose body has no last_login_log_id, or cannot be parsed, is
\* answered 400, the update of the session log is not called and the session log
\* is left as it was.
C18_BadLogoutLeavesLog ==
    [][ (sess'.op = "logout" /\ sess'.in[1].body.kind \in {"unparsable", "no-id"}) =>
            /\ sess'.out.status = 400 /\ sess'.out.status_field = "error"
            /\ sess'.out.trace = <<>>
            /\ logs' = logs
      ]_vars

C18_Witness ==
    /\ sess.op = "logout" /\ In.body.kind = "no-id" /\ sess.out.status = 400
    /\ Len(logs) >= 1 /\ logs[Len(logs)].LogoutAt = <<>>

\* C19: no step removes a row of the session log or changes its user or login
\* time; a logout time is set only on a row whose logout time is null, and once
\* set it never changes.
C19_EntryMutatedOnce ==
    [][ \A i \in 1..Len(logs) :
          /\ i <= Len(logs')
          /\ logs'[i].UserID = logs[i].UserID
          /\ logs'[i].LoginAt = logs[i].LoginAt
          /\ logs[i].LogoutAt # <<>> => logs'[i].LogoutAt = logs[i].LogoutAt
      ]_vars

\* a logout of a row that was logged out at an earlier instant
C19_Witness ==
    /\ sess.op = "logout" /\ In.body.kind = "id" /\ In.body.id \in 1..Len(logs)
    /\ ~In.fails /\ sess.out.status = 200
    /\ logs[In.body.id].LogoutAt # <<>>
    /\ logs[In.body.id].LogoutAt[1] < In.at

----------------------------------------------------------------------------
(* C20: creating a role whose name is taken *)

\* C20 (as claimed): no two roles have the same name, a request answered 201
\* has its role in the table, and a request to create a role, none of whose own
\* statements failed in the database, is answered 201 or, when the name is
\* taken, 409, also when another request with the same name runs beside it.
C20_DuplicateIs409 ==
    /\ \A i, j \in 1..Len(roleTable) : roleTable[i].Name = roleTable[j].Name => i = j
    /\ \A w \in Workers :
          /\ (cr[w].pc = "done" /\ cr[w].status = 201) => cr[w].body.name \in NamesIn(roleTable)
          /\ (cr[w].pc = "done" /\ cr[w].body.kind = "json" /\ ~cr[w].dbFailed) =>
                cr[w].status \in {201, 409}

----------------------------------------------------------------------------
(* C21 - C30 *)

LogoutStep ==
    /\ pc = "handler" /\ pc' = "done" /\ req.route.path = "/api/auth/logout"
    /\ sess'.op = "logout"

\* the user the token of the request in flight names
Caller == GetUserIDFromJWT(locals).val

\* C27: a logout request that the authentication stage passed on with the
\* token of one user, and whose body carries the id of an open entry of another
\* user, is answered 200 and, unless the update itself fails in the database,
\* sets the logoutAt of that entry to the clock of the request.
C27_LogoutClosesForeignEntry ==
    [][ (LogoutStep /\ sess'.in[1].body.kind = "id"
           /\ sess'.in[1].body.id \in 1..Len(logs)
           /\ logs[sess'.in[1].body.id].LogoutAt = <<>>
           /\ logs[sess'.in[1].body.id].UserID # Caller) =>
            /\ sess'.out.status = 200 /\ resp'.status = 200
            /\ ~sess'.in[1].fails =>
                  /\ sess'.out.message = "Logout successful and log updated."
                  /\ logs'[sess'.in[1].body.id].LogoutAt = <<now>>
                  /\ logs'[sess'.in[1].body.id].UserID = logs[sess'.in[1].body.id].UserID
      ]_vars

\* the seeded admin's token has closed the entry of the other user, a day after
\* that user's login
C27_Witness ==
    /\ sess.op = "logout" /\ pc = "done" /\ req.route.path = "/api/auth/logout"
    /\ In.body.kind = "id" /\ In.body.id = 1 /\ ~In.fails
    /\ Len(logs) >= 1 /\ logs[1].UserID = "u2" /\ logs[1].LoginAt = 0
    /\ GetUserIDFromJWT(In.locals).val = "u1"
    /\ logs[1].LogoutAt = <<TokenTTL>> /\ In.at = TokenTTL
    /\ sess.out.status = 200

\* the request in flight carries the header of the last logout, which was
\* answered 200, and the authentication stage has dealt with it
AfterLogout ==
    /\ sess.op = "logout" /\ sess.out.status = 200
    /\ pc \in {"role", "handler", "done"}
    /\ req.header = In.header

\* C28: a token that authenticated a logout answered 200 is accepted by the
\* authentication stage on every request validated before its exp, on any
\* /api route, and the request context gives the same user id and roles as it
\* gave the logout.
C28_TokenSurvivesLogout ==
    (AfterLogout /\ resp.at < Tok.exp.num) =>
        /\ Authenticated
        /\ GetUserIDFromJWT(locals) = GetUserIDFromJWT(In.locals)
        /\ GetUserRolesFromJWT(locals) = GetUserRolesFromJWT(In.locals)

\* a request for /api/profile, a second after the logout, with the same token
C28_Witness ==
    /\ AfterLogout /\ pc = "done" /\ req.route.path = "/api/profile"
    /\ In.body.id = 1 /\ ~In.fails /\ Len(logs) = 1 /\ logs[1].LogoutAt = <<In.at>>
    /\ resp.at > In.at /\ resp.at < Tok.exp.num
    /\ resp.ran /\ resp.status = 200
    /\ resp.user_id = GetUserIDFromJWT(In.locals).val

\* C25: the logoutAt of an entry changes only in a step of the logout handler
\* whose body carries the id of that entry; no other step (the clock passing
\* the expiry of the token issued at that login, a later login of the same or
\* another user, a logout with another id, any other request) changes it, so
\* an entry whose id is not presented stays open.
C25_OnlyOwnIdCloses ==
    [][ \A i \in 1..Len(logs) :
          /\ i <= Len(logs')
          /\ (logs'[i].LogoutAt # logs[i].LogoutAt) =>
                (LogoutStep /\ sess'.in[1].body.kind = "id" /\ sess'.in[1].body.id = i)
      ]_vars

\* the admin's first entry is still open after its token expired, after the
\* admin logged in again, and after a logout that named and closed the second
\* entry
C25_Witness ==
    /\ Len(logs) = 2 /\ logs[1].UserID = "u1" /\ logs[2].UserID = "u1"
    /\ logs[1].LoginAt = 0 /\ now >= TokenTTL
    /\ logs[1].LogoutAt = <<>> /\ logs[2].LogoutAt # <<>>
    /\ sess.op = "logout" /\ In.body.id = 2 /\ sess.out.status = 200

Updated(w) ==
    /\ lo[w].pc = "done" /\ lo[w].stamp # -1 /\ ~lo[w].fails /\ ~lo[w].updErr
    /\ lo[w].body.id \in 1..Len(logs)

\* C23: when two workers handle logouts for the id of the same entry side by
\* side, in every interleaving both are answered 200 "log updated": the update
\* that runs on the entry after it is closed reports no error and changes
\* nothing, and logoutAt holds the clock of the update that ran first.
C23_SecondLogoutIsNoOp ==
    [][ /\ \A w \in Workers :
              (lo[w].pc = "update" /\ lo'[w].pc = "done" /\ ~lo'[w].fails
                 /\ lo[w].body.id \in 1..Len(logs)
                 /\ logs[lo[w].body.id].LogoutAt # <<>>) =>
                  /\ logs' = logs
                  /\ ~lo'[w].updErr /\ lo'[w].out.status = 200
        /\ \A v, w \in Workers :
              (v # w /\ Updated(v) /\ Updated(w) /\ lo[v].body.id = lo[w].body.id) =>
                  /\ lo[v].out.status = 200 /\ lo[w].out.status = 200
                  /\ lo[v].out.message = "Logout successful and log updated."
                  /\ lo[w].out.message = "Logout successful and log updated."
                  /\ logs[lo[w].body.id].LogoutAt # <<>>
                  /\ logs[lo[w].body.id].LogoutAt[1] <= lo[v].stamp
                  /\ logs[lo[w].body.id].LogoutAt[1] <= lo[w].stamp
      ]_vars

\* two workers hold their responses for the same entry, their updates having
\* run a second apart: the entry has the clock of the first
C23_Witness ==
    /\ Updated(1) /\ Updated(2) /\ lo[1].body.id = 1 /\ lo[2].body.id = 1
    /\ lo[2].stamp < lo[1].stamp
    /\ logs[1].LogoutAt = <<lo[2].stamp>>
    /\ lo[1].out.status = 200 /\ lo[2].out.status = 200

\* the user table holds the admin as SeedExampleUser inserts it
SeededAdminIn(us) ==
    \E u \in us : /\ u.email = UserEmail /\ u.password_hash = Bcrypt(AuthPassword)
                  /\ u.name = "admin"

\* the step is a login with the configured admin email and password, the
\* lookup not failing
AdminLoginStep ==
    /\ sess'.op = "login" /\ (sess' # sess \/ logs' # logs)
    /\ sess'.in[1].body = [kind |-> "json", email |-> UserEmail, password |-> AuthPassword]
    /\ ~sess'.in[1].dbFails

\* C22 (as claimed): while the user table holds the seeded admin, as it does
\* after every start of the process, a login with the configured admin email
\* and password is answered 200 with a token and roles = ["admin"], after any
\* number of restarts.
C22_SeededAdminLogin ==
    [][ (AdminLoginStep /\ SeededAdminIn(users)) =>
            /\ sess'.out.status = 200 /\ sess'.out.token # <<>>
            /\ sess'.out.roles = Slice(<<"admin">>)
      ]_vars

\* the request in flight carries the token GenerateJWT gave, and the middlewares
\* before the handler are done with it
IssuedTokenJudged ==
    /\ gen.called /\ HasToken /\ Tok = gen.token[1]
    /\ pc \in {"handler", "done"}
    /\ Unexpired(Tok, resp.at)

\* the role names GenerateJWT was given
IssuedRoles == {gen.roles.elems[i] : i \in 1..Len(gen.roles.elems)}

\* the row the user table holds for the user the token was issued to
StoredFor(id) == {u \in users : u.id = id}

\* C29: a request that carries an issued token before its exp is authenticated,
\* and is refused by HasRole exactly when the route requires roles and none of
\* them is among the roles the token was issued with, whatever the user table
\* holds for the user by then: also after UpdateUser changed the user's role or
\* DeleteUser removed the user.
C29_TokenRolesDecide ==
    IssuedTokenJudged =>
        /\ locals # NoLocals
        /\ resp.status # 401
        /\ (resp.status = 403) <=>
              (Required(req.route) # {} /\ Required(req.route) \cap IssuedRoles = {})
        /\ (pc = "done" /\ resp.status # 403) => resp.ran

C29_Witness ==
    /\ IssuedTokenJudged /\ pc = "done" /\ resp.ran
    /\ req.route.path = "/api/users" /\ IssuedRoles = {"admin"}
    /\ sess.op \in {"update", "delete"} /\ sess.out.status = 200
    /\ sess.in[1].at < resp.at
    /\ \A u \in StoredFor(gen.userID) : u.name # "admin"

\* the authentication middleware has dealt with the request in flight, which
\* carries a token whose exp is after the clock it was validated at
UnexpiredTokenJudged ==
    /\ pc \in {"role", "handler", "done"}
    /\ HasToken /\ resp.at # -1 /\ Unexpired(Tok, resp.at)

\* C26: no step of a login, a logout, a middleware or an update or deletion of a
\* user changes the configured secret or the key jwtware holds; both stay the
\* value LoadConfig gave, so that either middleware accepts, at any clock
\* before its exp, every token a login issued.
C26_SecretReadOnly ==
    [][ /\ secret' = secret /\ signingKey' = signingKey
        /\ secret' = JWTSecret /\ signingKey' = JWTSecret
        /\ (UnexpiredTokenJudged => Authenticated)'
      ]_vars

C26_Witness ==
    /\ UnexpiredTokenJudged /\ pc = "done" /\ resp.ran
    /\ req.route.chain = "AuthRequired"
    /\ sess.op \in {"update", "delete"} /\ sess.out.status = 200
    /\ sess.in[1].at < resp.at /\ Tok.iat.num < resp.at
    /\ secret = JWTSecret /\ signingKey = JWTSecret

====
